---- MODULE Spec2Model ----
(***************************************************************************)
(* The run of NaverCafeCrawler (src/naver_cafe_author_crawler.py):         *)
(* authenticate, collect the author's posts page by page, export them,     *)
(* clean up.  Every stage of run() is an action; what a collaborator       *)
(* (browser driver, listing fetch, comment fetch, filesystem) answers is   *)
(* drawn from a small set with \E, a raised exception included.            *)
(***************************************************************************)
EXTENDS Integers, Sequences, FiniteSets, TLC

\* ---------------------------------------------------------------- bounds
\* Listing pages the run may request (config 'max_pages' takes this value).
MaxPages == 2
\* Entries the listing source yields over one run, all pages together.
MaxEntries == 2
\* Comments one comment thread holds at most.
MaxComments == 1
\* Images the posts of one corpus hold, all together.
MaxImages == 1
\* Posts of a corpus handed to the exporter on its own.
MaxPosts == 2
\* Calls of export_articles on one output directory.
MaxExports == 2
\* Characters of the short titles given to the filename derivation.
MaxTitleLen == 2

\* ------------------------------------------------------------ configuration
\* config.get('max_pages', 10)
max_pages == MaxPages
\* config.get('period_days', 365), in the model's time unit
period_days == 1
\* datetime.now() read when collection starts, in the model's time unit
now == 2
\* cutoff_date = datetime.now() - timedelta(days=period_days)
cutoff_date == now - period_days

VARIABLES
    pc,              \* where run() stands
    include_comments,\* config 'include_comments'
    authenticator,   \* self.authenticator: "none" | "created"
    driver,          \* authenticator.driver: "none" | "open" | "quit" | "broken"
    session,         \* self.session: "none" | "open" | "closed"
    page,            \* the loop variable of _fetch_articles
    remaining,       \* entries of the current listing not yet processed
    pos,             \* entries of the current listing already processed
    articles,        \* self.articles, the corpus
    stats,           \* self.stats: the three totals
    logs,            \* logger entries by level: warnings and errors counted
    fetched,         \* history: what each requested listing page answered
    hist,            \* history: what became of each processed entry
    stage,           \* what each stage function returned: "none"|"true"|"false"
    fs,              \* the output directory
    pending,         \* the value of the return statement run() executed
    result,          \* how run() ended: "none" | "true" | "false" | "raised"
    delays,          \* history: calls of time.sleep(1) so far
    corpus,          \* MarkdownExporter: the 'articles' argument of export_articles
    disk,            \* MarkdownExporter: the files under output_dir
    exports,         \* MarkdownExporter: calls of export_articles so far
    exhist,          \* history: what the last call of export_articles did
    sanIn,           \* _sanitize_filename: the title it is given
    sanOut           \* _sanitize_filename: what it returned

\* The state of the exporter and of the filename derivation taken alone.
exportVars == <<corpus, disk, exports, exhist>>
sanVars == <<sanIn, sanOut>>
\* The state of the run of the crawler.
runVars == <<pc, include_comments, authenticator, driver, session, page,
             remaining, pos, articles, stats, logs, fetched, hist, stage, fs,
             pending, result, delays>>

vars == <<runVars, exportVars, sanVars>>

\* ------------------------------------------------------------------ dates
\* A 'date' field as the listing gives it: an ISO string without offset
\* ("iso"), an ISO string with a UTC offset ("isotz"), the extractor's
\* sentinel "Unknown", or no 'date' key at all ("absent").
IsoTimes == 0..now
DateFields ==
    [text : {"iso", "isotz"}, t : IsoTimes]
        \cup {[text |-> "Unknown", t |-> 0], [text |-> "absent", t |-> 0]}

\* datetime.now().isoformat(): the default of article.get('date', ...)
NowIso == [text |-> "iso", t |-> now]

\* article.get('date', datetime.now().isoformat())
GetDate(d) == IF d.text = "absent" THEN NowIso ELSE d

\* datetime.fromisoformat(s): a datetime (naive, or aware when the string
\* carries an offset), or ValueError for a string that is no ISO date.
FromIsoFormat(s) ==
    IF s.text = "iso" THEN [ok |-> TRUE, t |-> s.t, aware |-> FALSE]
    ELSE IF s.text = "isotz" THEN [ok |-> TRUE, t |-> s.t, aware |-> TRUE]
    ELSE [ok |-> FALSE, t |-> 0, aware |-> FALSE]

\* BeforeCutoff with the comparison turned around.
BeforeCutoffReversed(dt) ==
    IF dt.aware THEN "raise"
    ELSE IF dt.t > cutoff_date THEN "yes" ELSE "no"

\* article_date < cutoff_date, cutoff_date being naive: "raise" is the
\* TypeError of comparing an aware datetime with a naive one.
BeforeCutoff(dt) ==
    IF dt.aware THEN "raise"
    ELSE IF dt.t < cutoff_date THEN "yes" ELSE "no"

\* ------------------------------------------------------------------- init
RunInit ==
    /\ pc = "idle"
    /\ include_comments \in BOOLEAN
    /\ authenticator = "none"
    /\ driver = "none"
    /\ session = "none"
    /\ page = 0
    /\ remaining = 0
    /\ pos = 0
    /\ articles = <<>>
    /\ stats = [total_articles |-> 0, total_comments |-> 0, total_images |-> 0]
    /\ logs = [warning |-> 0, error |-> 0]
    /\ fetched = <<>>
    /\ hist = <<>>
    /\ stage = [auth |-> "none", fetch |-> "none", export |-> "none"]
    /\ fs = [dir |-> FALSE, index |-> FALSE, docs |-> {}]
    /\ pending = "none"
    /\ result = "none"
    /\ delays = 0

\* No exporter call and no filename derivation has happened.
ExportIdle ==
    /\ corpus = <<>>
    /\ disk = [dir |-> FALSE, files |-> <<>>]
    /\ exports = 0
    /\ exhist = [index |-> FALSE, attempted |-> {}, failed |-> {},
                  paths |-> <<>>, errors |-> 0, streak |-> 0]
SanIdle ==
    /\ sanIn = <<>>
    /\ sanOut = [done |-> FALSE, name |-> <<>>]

Init == RunInit /\ ExportIdle /\ SanIdle

LogError(n) == [logs EXCEPT !.error = @ + n]
LogWarning(n) == [logs EXCEPT !.warning = @ + n]

\* --------------------------------------------------------------- run()
\* run(), lines 306-310: the run starts with step 1.
Start ==
    /\ pc = "idle"
    /\ pc' = "authenticate"
    /\ UNCHANGED <<include_comments, authenticator, driver, session, page,
                   remaining, pos, articles, stats, logs, fetched, hist, stage,
                   fs, pending, result, delays>>
    /\ UNCHANGED <<exportVars, sanVars>>

\* What the collaborators of _authenticate may answer:
\*   "ctor_error"    building NaverAuthenticator raises (a missing config key)
\*   "driver_error"  setup_driver() raises, after logging
\*   "login_false"   login() returns False (bad credentials or a caught error)
\*   "cookies_error" get_cookies() raises after the session was created
\*   "ok"            the browser logged in and its cookies were copied
AuthOutcomes == {"ctor_error", "driver_error", "login_false", "cookies_error", "ok"}

\* The value _authenticate returns for each outcome.
AuthReturns(o) == o = "ok"

\* Error entries logged by setup_driver, login, _authenticate and run().
AuthErrors(o) ==
    CASE o = "ctor_error" -> 2
      [] o = "driver_error" -> 3
      [] o = "login_false" -> 2
      [] o = "cookies_error" -> 2
      [] OTHER -> 0

\* Step 1 of run(): _authenticate() and the test of its result.
Authenticate ==
    /\ pc = "authenticate"
    /\ \E o \in AuthOutcomes :
        /\ authenticator' = IF o = "ctor_error" THEN "none" ELSE "created"
        /\ driver' = IF o \in {"ctor_error", "driver_error"} THEN "none" ELSE "open"
        /\ session' = IF o \in {"cookies_error", "ok"} THEN "open" ELSE "none"
        /\ logs' = LogError(AuthErrors(o))
        /\ IF AuthReturns(o)
           THEN /\ stage' = [stage EXCEPT !.auth = "true"]
                /\ pc' = "fetch_page"
                /\ page' = 1
                /\ pending' = pending
           ELSE /\ stage' = [stage EXCEPT !.auth = "false"]
                /\ pc' = "cleanup"
                /\ page' = page
                /\ pending' = "false"
    /\ UNCHANGED <<include_comments, remaining, pos, articles, stats, fetched,
                   hist, fs, result, delays>>
    /\ UNCHANGED <<exportVars, sanVars>>

\* ------------------------------------------------------ _fetch_articles()
\* What _fetch_page_articles may answer: a listing of n entries (the
\* placeholder body answers 0), or -1 for a raised exception.
PageRaised == -1
PageAnswers == {PageRaised} \cup (0..(MaxEntries - Len(hist)))

\* ListingEnds with the test of the empty listing lost: the loop goes on.
ListingEndsNever(n) == FALSE

\* 'if not articles: break'
ListingEnds(n) == n = 0

\* Where the loop goes once the for-loop over a listing has no entry left:
\* time.sleep(1), then the next page.
NextAfterEntry(rem) == IF rem > 0 THEN "process" ELSE "sleep"

\* AfterEntryError with 'break' in the handler instead of 'continue': the
\* rest of the listing is left unprocessed.
AfterEntryErrorBreaks(rem) == "sleep"

\* Where the loop goes after the handler of the per-entry try block:
\* 'continue', the next entry of the same listing if there is one.
AfterEntryError(rem) == NextAfterEntry(rem)

\* One round of 'for page in range(1, max_pages + 1)' up to the entries:
\* the listing of `page` is requested; a raised exception is caught by the
\* handler of _fetch_articles, which returns False, and run() returns False.
FetchPage ==
    /\ pc = "fetch_page"
    /\ page <= max_pages
    /\ \E n \in PageAnswers :
        /\ fetched' = Append(fetched, [page |-> page, answer |-> n])
        /\ IF n = PageRaised
           THEN /\ logs' = LogError(2)
                /\ stage' = [stage EXCEPT !.fetch = "false"]
                /\ pending' = "false"
                /\ pc' = "cleanup"
                /\ UNCHANGED <<remaining, pos>>
           ELSE IF ListingEnds(n)
           THEN /\ stage' = [stage EXCEPT !.fetch = "true"]
                /\ pc' = "export"
                /\ UNCHANGED <<logs, pending, remaining, pos>>
           ELSE /\ remaining' = n
                /\ pos' = 0
                /\ pc' = NextAfterEntry(n)
                /\ UNCHANGED <<logs, stage, pending>>
    /\ UNCHANGED <<include_comments, authenticator, driver, session, page,
                   articles, stats, hist, fs, result, delays>>
    /\ UNCHANGED <<exportVars, sanVars>>

\* What _fetch_comments may answer for one post: a thread of 0..MaxComments
\* comments (the placeholder body answers 0), or -1 for a raised exception.
CommentsRaised == -1
CommentAnswers == {CommentsRaised} \cup (0..MaxComments)

\* How the date of an entry stands to the cutoff, whatever the code makes
\* of it: "unparseable", "early" (parses, before the cutoff) or "recent".
DateClass(d) ==
    LET dt == FromIsoFormat(GetDate(d))
    IN IF ~dt.ok THEN "unparseable"
       ELSE IF dt.t < cutoff_date THEN "early" ELSE "recent"

\* The body of 'for article in articles' for one entry with 'date' field d,
\* the comment source answering c: what the try block does before the
\* handler or the end of the block is reached.
\*   "error"    an exception before the append (ValueError of the parse,
\*              TypeError of the comparison): warning, continue
\*   "filtered" article_date < cutoff_date: continue
\*   "failed"   appended and counted, then _fetch_comments raised:
\*              warning, continue
\*   "kept"     appended, counted, comments attached
EntryOutcome(d, c) ==
    LET dt == FromIsoFormat(GetDate(d))
    IN IF ~dt.ok THEN "error"
       ELSE IF BeforeCutoff(dt) = "raise" THEN "error"
       ELSE IF BeforeCutoff(dt) = "yes" THEN "filtered"
       ELSE IF include_comments /\ c = CommentsRaised THEN "failed"
       ELSE "kept"

\* The images the records of a corpus hold, all together.
RECURSIVE SumImages(_)
SumImages(as) ==
    IF as = <<>> THEN 0 ELSE as[1].images + SumImages(Tail(as))

\* How many images the 'images' field of a listing entry may hold.
ImageCounts == 0..(MaxImages - SumImages(articles))

\* AddToCorpus putting the record in front of the corpus.
AddToCorpusFront(as, a) == <<a>> \o as

\* self.articles.append(article)
AddToCorpus(as, a) == Append(as, a)

\* StatsAfter with the comment total left out.
StatsAfterNoComments(st, o, attached, im) ==
    IF o = "kept"
    THEN [total_articles |-> st.total_articles + 1,
          total_comments |-> st.total_comments,
          total_images |-> st.total_images + im]
    ELSE IF o = "failed"
    THEN [st EXCEPT !.total_articles = @ + 1]
    ELSE st

\* self.stats after one entry: total_articles right after the append,
\* total_comments after the comments were attached, total_images last;
\* the two last lines are not reached when _fetch_comments raised.
StatsAfter(st, o, attached, im) ==
    IF o = "kept"
    THEN [total_articles |-> st.total_articles + 1,
          total_comments |-> st.total_comments + attached,
          total_images |-> st.total_images + im]
    ELSE IF o = "failed"
    THEN [st EXCEPT !.total_articles = @ + 1]
    ELSE st

\* One iteration of 'for article in articles'.
ProcessEntry ==
    /\ pc = "process"
    /\ remaining > 0
    /\ \E d \in DateFields, c \in CommentAnswers, im \in ImageCounts :
        LET o == EntryOutcome(d, c)
            appended == o \in {"failed", "kept"}
            attached == IF o = "kept" /\ include_comments THEN c ELSE 0
            article == [page |-> page, pos |-> pos + 1, date |-> d,
                        comments |-> attached, images |-> im]
        IN /\ articles' = IF appended THEN AddToCorpus(articles, article) ELSE articles
           /\ stats' = StatsAfter(stats, o, attached, im)
           /\ logs' = IF o \in {"error", "failed"} THEN LogWarning(1) ELSE logs
           /\ hist' = Append(hist, [page |-> page, pos |-> pos + 1,
                                    date |-> DateClass(d), outcome |-> o,
                                    asked |-> appended /\ include_comments])
           /\ pc' = IF o \in {"error", "failed"}
                    THEN AfterEntryError(remaining - 1)
                    ELSE NextAfterEntry(remaining - 1)
    /\ pos' = pos + 1
    /\ remaining' = remaining - 1
    /\ UNCHANGED <<include_comments, authenticator, driver, session, page,
                   fetched, stage, fs, pending, result, delays>>
    /\ UNCHANGED <<exportVars, sanVars>>

\* NextPage with the loop variable left where it is.
NextPageSame(p) == p

\* The next value of 'for page in range(1, max_pages + 1)'.
NextPage(p) == p + 1

\* SleepCount with the call of time.sleep left out.
SleepCountNone(d) == d

\* time.sleep(1): one more delay.
SleepCount(d) == d + 1

\* time.sleep(1) after the entries of a page, then the next round of the
\* page loop; after the last page _fetch_articles returns True.
Sleep ==
    /\ pc = "sleep"
    /\ delays' = SleepCount(delays)
    /\ IF page < max_pages
       THEN /\ page' = NextPage(page)
            /\ pc' = "fetch_page"
            /\ stage' = stage
       ELSE /\ page' = page
            /\ pc' = "export"
            /\ stage' = [stage EXCEPT !.fetch = "true"]
    /\ remaining' = 0
    /\ UNCHANGED <<include_comments, authenticator, driver, session, pos,
                   articles, stats, logs, fetched, hist, fs, pending, result>>
    /\ UNCHANGED <<exportVars, sanVars>>

\* ------------------------------------------------------ _export_results()
\* The keys of the posts of the corpus.
Keys == {<<articles[i].page, articles[i].pos>> : i \in 1..Len(articles)}

\* The value _export_results returns: export_articles catches every
\* exception itself and returns nothing, so the 'return True' after the
\* call is always reached.
ExportReturns(mkdirOk, indexOk, written) == TRUE

\* Step 3 of run(): _export_results(), the test of its result and the
\* closing lines of the try block.  The filesystem may refuse to create
\* the directory, to open the index, or to write any of the documents.
Export ==
    /\ pc = "export"
    /\ \E mkdirOk \in BOOLEAN, indexOk \in BOOLEAN, refused \in SUBSET Keys :
        LET written == IF mkdirOk /\ indexOk THEN Keys \ refused ELSE {}
            errors == IF ~mkdirOk \/ ~indexOk THEN 1 ELSE Cardinality(refused)
            ret == ExportReturns(mkdirOk, indexOk, written)
        IN /\ fs' = [dir |-> fs.dir \/ mkdirOk,
                     index |-> fs.index \/ (mkdirOk /\ indexOk),
                     docs |-> fs.docs \cup written]
           /\ logs' = LogError(errors + IF ret THEN 0 ELSE 1)
           /\ stage' = [stage EXCEPT !.export = IF ret THEN "true" ELSE "false"]
           /\ pending' = IF ret THEN "true" ELSE "false"
    /\ pc' = "cleanup"
    /\ UNCHANGED <<include_comments, authenticator, driver, session, page,
                   remaining, pos, articles, stats, fetched, hist, result, delays>>
    /\ UNCHANGED <<exportVars, sanVars>>

\* -------------------------------------------------------------- cleanup()
\* The finally clause of run(): cleanup().  authenticator.close() calls
\* driver.quit() when there is a driver, and quit() may raise; the exception
\* leaves cleanup() and run() at once, replacing the pending return value.
Cleanup ==
    /\ pc = "cleanup"
    /\ \E quitOk \in BOOLEAN :
        LET quitting == authenticator = "created" /\ driver = "open"
            raised == quitting /\ ~quitOk
        IN /\ driver' = IF quitting
                        THEN (IF quitOk THEN "quit" ELSE "broken")
                        ELSE driver
           /\ session' = IF ~raised /\ session = "open" THEN "closed" ELSE session
           /\ result' = IF raised THEN "raised" ELSE pending
    /\ pc' = "done"
    /\ UNCHANGED <<include_comments, authenticator, page, remaining, pos,
                   articles, stats, logs, fetched, hist, stage, fs, pending, delays>>
    /\ UNCHANGED <<exportVars, sanVars>>

Next ==
    \/ Start
    \/ Authenticate
    \/ FetchPage
    \/ ProcessEntry
    \/ Sleep
    \/ Export
    \/ Cleanup

Spec == Init /\ [][Next]_vars

\* run() is one thread of control: as long as a step is possible, one is
\* taken (every call of a collaborator returns or raises).
LiveSpec == Spec /\ WF_vars(Next)

\* The run up to the end of _fetch_articles: authentication and collection,
\* without the export and the cleanup that follow.
CollectNext ==
    \/ Start
    \/ Authenticate
    \/ FetchPage
    \/ ProcessEntry
    \/ Sleep

SpecCollect == Init /\ [][CollectNext]_vars /\ WF_vars(CollectNext)

\* -------------------------------------------------------- MarkdownExporter
\* Characters of a title: a letter, a digit, the three characters the
\* derivation lets through, and two it removes.
Alphabet == {"a", "7", " ", "-", "_", "!", "?"}

\* c.isalnum()
IsAlnum(c) == c \in {"a", "7"}

\* safe_name[:50]
NameLimit == 50

\* The fallback name: "article".
Sentinel == <<"a", "r", "t", "i", "c", "l", "e">>

\* "".join(c if c.isalnum() or c in ' -_' else '' for c in filename)
RECURSIVE RemoveSpecial(_)
RemoveSpecial(t) ==
    IF t = <<>> THEN <<>>
    ELSE (IF IsAlnum(t[1]) \/ t[1] \in {" ", "-", "_"} THEN <<t[1]>> ELSE <<>>)
            \o RemoveSpecial(Tail(t))

\* safe_name.replace(' ', '_')
ReplaceSpaces(t) == [i \in 1..Len(t) |-> IF t[i] = " " THEN "_" ELSE t[i]]

\* t[:n]
Slice(t, n) == IF Len(t) > n THEN SubSeq(t, 1, n) ELSE t

\* SanitizeFilename cutting the title to 50 characters before anything is
\* removed from it.
SanitizeFilenameCutsFirst(filename) ==
    LET safe_name == ReplaceSpaces(RemoveSpecial(Slice(filename, NameLimit)))
    IN IF safe_name = <<>> THEN Sentinel ELSE safe_name

\* MarkdownExporter._sanitize_filename
SanitizeFilename(filename) ==
    LET safe_name == Slice(ReplaceSpaces(RemoveSpecial(filename)), NameLimit)
    IN IF safe_name = <<>> THEN Sentinel ELSE safe_name

\* The name of INDEX.md; no derived name is equal to it here.
IndexName == <<"INDEX">>

\* IndexLink without the derivation: the title itself.
IndexLinkRaw(article) == article.title

\* The file name an index line links to: ./{filename}.md
IndexLink(article) == SanitizeFilename(article.title)

\* The file name _export_single_article writes to: {filename}.md
DocPath(article) == SanitizeFilename(article.title)

\* What is written to INDEX.md: the heading with the author's name, the
\* total, and one numbered line per article.
IndexDocument(articles_, author_name) ==
    [author |-> author_name,
     total |-> Len(articles_),
     lines |-> [i \in 1..Len(articles_) |->
                  [no |-> i, title |-> articles_[i].title,
                   link |-> IndexLink(articles_[i])]]]

\* What is written to a post document: every field of the article.
PostDocument(article) == article

\* WriteFile opening the file to append ('a') instead of to write ('w').
WriteFileAppends(files, name, text) ==
    (name :> ((IF name \in DOMAIN files THEN files[name] ELSE <<>>) \o <<text>>))
        @@ files

\* with open(path, 'w') as f: f.write(...): the file holds what this call
\* wrote and nothing else.
WriteFile(files, name, text) == (name :> <<text>>) @@ files

\* What the filesystem may answer to the export of one article: "ok",
\* "open_fails" (the file is not touched) or "write_fails" (the file was
\* opened for writing, so cut to nothing, and the write then failed).
DocAnswers == {"ok", "open_fails", "write_fails"}

\* KeepsGoing with the exception of one article leaving the loop.
KeepsGoingOnlyAfterSuccess(answer) == answer = "ok"

\* Whether 'for article in articles' goes on after an article:
\* _export_single_article catches its own exceptions.
KeepsGoing(answer) == TRUE

\* _export_single_article for the articles i..Len(articles_) in turn.
RECURSIVE ExportDocs(_, _, _, _)
ExportDocs(files, articles_, answers, i) ==
    IF i > Len(articles_) THEN files
    ELSE LET path == DocPath(articles_[i])
             after ==
                CASE answers[i] = "ok" ->
                        WriteFile(files, path, PostDocument(articles_[i]))
                  [] answers[i] = "write_fails" -> (path :> <<>>) @@ files
                  [] OTHER -> files
         IN IF KeepsGoing(answers[i])
            THEN ExportDocs(after, articles_, answers, i + 1)
            ELSE after

\* The articles whose export is attempted, given the answers.
Attempted(articles_, answers) ==
    {i \in 1..Len(articles_) : \A j \in 1..(i - 1) : KeepsGoing(answers[j])}

\* The author's display name (config 'author_nickname').
AuthorName == "Author"

\* One call of export_articles on the corpus: mkdir, INDEX.md, then every
\* article; every exception ends in a logged error.
ExportArticles ==
    /\ exports < MaxExports
    /\ exports' = exports + 1
    /\ \E mkdirOk \in BOOLEAN, indexOk \in BOOLEAN,
          answers \in [1..Len(corpus) -> DocAnswers] :
        LET att == IF mkdirOk /\ indexOk THEN Attempted(corpus, answers) ELSE {}
            bad == {i \in att : answers[i] # "ok"}
            indexed == WriteFile(disk.files, IndexName,
                                 IndexDocument(corpus, AuthorName))
            errs == IF mkdirOk /\ indexOk THEN Cardinality(bad) ELSE 1
        IN /\ disk' = [dir |-> disk.dir \/ mkdirOk,
                       files |-> IF mkdirOk /\ indexOk
                                 THEN ExportDocs(indexed, corpus, answers, 1)
                                 ELSE disk.files]
           /\ exhist' = [index |-> mkdirOk /\ indexOk,
                         attempted |-> att,
                         failed |-> bad,
                         paths |-> [i \in att |-> DocPath(corpus[i])],
                         errors |-> errs,
                         streak |-> IF mkdirOk /\ indexOk /\ errs = 0
                                    THEN exhist.streak + 1 ELSE 0]
    /\ UNCHANGED <<corpus, runVars, sanVars>>

\* The titles of the posts handed to the exporter on its own: pairs and
\* triples that derive the same name ("a!" and "a?", "a 7" and "a_7", the
\* empty title and "!") and titles that do not.
ExportTitles ==
    {<<"a">>, <<"a", "!">>, <<"a", "?">>, <<>>, <<"!">>,
     <<"a", " ", "7">>, <<"a", "_", "7">>, <<"7">>}

\* The corpora handed to the exporter: posts with distinct URLs.
Corpora ==
    UNION {[1..n -> ExportTitles] : n \in 0..MaxPosts}
ExportInit ==
    /\ RunInit
    /\ include_comments
    /\ SanIdle
    /\ \E ts \in Corpora :
        corpus = [i \in 1..Len(ts) |-> [url |-> i, title |-> ts[i]]]
    /\ disk = [dir |-> FALSE, files |-> <<>>]
    /\ exports = 0
    /\ exhist = [index |-> FALSE, attempted |-> {}, failed |-> {},
                  paths |-> <<>>, errors |-> 0, streak |-> 0]

ExportNext == ExportArticles

\* The exporter called again and again on one corpus and one directory.
SpecExport == ExportInit /\ [][ExportNext]_vars

\* ----------------------------------------------------- _sanitize_filename
\* The titles the derivation is tried on: every title of up to MaxTitleLen
\* characters, and titles around the limit of 50 characters that repeat a
\* short one.
ShortTitles == UNION {[1..n -> Alphabet] : n \in 0..MaxTitleLen}
Cycle(p, n) == [i \in 1..n |-> p[((i - 1) % Len(p)) + 1]]
LongTitles ==
    {Cycle(p, n) : p \in ShortTitles \ {<<>>}, n \in (NameLimit - 1)..(NameLimit + 2)}
Titles == ShortTitles \cup LongTitles

SanInit ==
    /\ RunInit
    /\ include_comments
    /\ ExportIdle
    /\ sanIn \in Titles
    /\ sanOut = [done |-> FALSE, name |-> <<>>]

\* One call of _sanitize_filename.
Sanitize ==
    /\ ~sanOut.done
    /\ sanOut' = [done |-> TRUE, name |-> SanitizeFilename(sanIn)]
    /\ UNCHANGED <<sanIn, runVars, exportVars>>

SanNext == Sanitize

\* The filename derivation applied to one title.
SpecSanitize == SanInit /\ [][SanNext]_vars

\* ---------------------------------------------------------------- history
\* The entries of hist that were appended to the corpus.
Appended(h) == h.outcome \in {"failed", "kept"}
\* The entries of hist whose processing ended in the per-entry handler.
Failed(h) == h.outcome \in {"error", "failed"}
\* Positions of hist, and of the corpus, that belong to listing page p.
HistOfPage(p) == {i \in 1..Len(hist) : hist[i].page = p}
CorpusOfPage(p) == {j \in 1..Len(articles) : articles[j].page = p}
\* The post of listing page p, position q, is in the corpus.
InCorpus(p, q) ==
    \E j \in 1..Len(articles) : articles[j].page = p /\ articles[j].pos = q
\* The keys of a sequence of records with page and pos, in order.
KeysOf(s) == [i \in 1..Len(s) |-> <<s[i].page, s[i].pos>>]
\* The listing of the i-th request has been processed to its last entry.
Processed(i) == Cardinality(HistOfPage(fetched[i].page)) = fetched[i].answer
\* run() has left the collection stage.
Collected == pc \in {"export", "cleanup", "done"}

\* ------------------------------------------------------------------ claims

\* C1: when run() ends, on whatever path, cleanup has run and every
\* resource acquired during the run, the browser handle and the HTTP
\* session, has been closed.
C1_ResourcesClosedAtEnd ==
    pc = "done" => (driver # "open" /\ session # "open")

\* C2: run() always ends by returning a boolean, never by an exception, and
\* a failure of a collaborator anywhere gives false with an error logged.
C2_RunReturnsBoolean ==
    pc = "done" =>
        /\ result \in {"true", "false"}
        /\ (result = "false" => logs.error > 0)

\* C3: the stages are sequential and a failed stage skips the later ones:
\* nothing is fetched unless authentication returned success, nothing is
\* written unless collection returned success, and after an authentication
\* failure the corpus stays empty, authentication is not tried again and
\* run() returns false.
C3_StagesSequential ==
    /\ (fetched # <<>> \/ hist # <<>>) => stage.auth = "true"
    /\ (fs.dir \/ fs.index \/ fs.docs # {}) => stage.fetch = "true"
    /\ stage.auth = "false" =>
        /\ articles = <<>>
        /\ pc \in {"cleanup", "done"}
        /\ (pc = "done" => result = "false")

\* C4: a failure while fetching listing page k ends pagination at k but is
\* not fatal: the records of pages 1..k-1 stay in the corpus, the collection
\* stage reports success and the export stage runs on the partial corpus.
C4_PageFailureIsTruncation ==
    \A i \in 1..Len(fetched) :
        fetched[i].answer = PageRaised =>
            /\ i = Len(fetched)
            /\ KeysOf(articles) = KeysOf(SelectSeq(hist, Appended))
            /\ stage.fetch = "true"
            /\ (pc = "done" => stage.export # "none")

\* C5: when the export fails (the directory cannot be created, the index
\* cannot be written, or no document of a non-empty corpus is written) the
\* export stage reports failure and run() returns false.
C5_ExportFailureFailsRun ==
    (stage.export # "none"
        /\ (~fs.dir \/ ~fs.index \/ (articles # <<>> /\ fs.docs = {})))
    => (stage.export = "false" /\ pending = "false" /\ result # "true")

\* C6: when the listing of page k is the first to come back empty,
\* collection stops at k without error: no later page is requested, the
\* corpus is the kept entries of pages 1..k-1, and the stage reports success.
C6_EmptyPageStops ==
    \A i \in 1..Len(fetched) :
        fetched[i].answer = 0 =>
            /\ i = Len(fetched)
            /\ \A j \in 1..Len(fetched) : fetched[j].page <= fetched[i].page
            /\ Collected
            /\ stage.fetch = "true"
            /\ (pc = "export" => logs.error = 0)
            /\ KeysOf(articles) = KeysOf(SelectSeq(hist, Appended))
            /\ \A j \in 1..Len(articles) : articles[j].page < fetched[i].page

C6_Witness ==
    /\ pc = "done"
    /\ Len(fetched) = 2
    /\ fetched[2].answer = 0
    /\ Len(articles) > 0

\* C7: no record whose date parses and lies before the cutoff is ever in
\* the corpus; such an entry is not counted in total_articles and the
\* comment source is never asked for it.
C7_RecencyFilter ==
    /\ \A j \in 1..Len(articles) : DateClass(articles[j].date) # "early"
    /\ \A i \in 1..Len(hist) :
        hist[i].date = "early" =>
            /\ ~Appended(hist[i])
            /\ ~hist[i].asked
            /\ ~InCorpus(hist[i].page, hist[i].pos)
    /\ stats.total_articles =
        Cardinality({i \in 1..Len(hist) : hist[i].date # "early" /\ Appended(hist[i])})

C7_Witness ==
    /\ Len(articles) > 0
    /\ \E i \in 1..Len(hist) : hist[i].date = "early" /\ hist[i].outcome = "filtered"

\* C8: an entry whose date cannot be parsed is kept in the corpus and
\* counted, never dropped because of the parse failure.
C8_UnparseableKept ==
    \A i \in 1..Len(hist) :
        hist[i].date = "unparseable" =>
            /\ Appended(hist[i])
            /\ InCorpus(hist[i].page, hist[i].pos)

\* C9: when the processing of exactly one entry of the n otherwise kept
\* entries of a listing page fails, that entry is skipped: exactly the other
\* n-1 entries of the page are in the corpus and counted, and one warning
\* is logged.
C9_FailedEntrySkipped ==
    \A i \in 1..Len(fetched) :
        LET p == fetched[i].page
            n == fetched[i].answer
            bad == {k \in HistOfPage(p) : Failed(hist[k])}
        IN (/\ n > 0
            /\ Processed(i)
            /\ Cardinality(bad) = 1
            /\ \A k \in HistOfPage(p) \ bad : hist[k].outcome = "kept")
           => /\ Cardinality(CorpusOfPage(p)) = n - 1
              /\ \A k \in bad : ~InCorpus(p, hist[k].pos)
              /\ (Len(fetched) = 1 =>
                    stats.total_articles = n - 1 /\ logs.warning = 1)

\* C10: a failure while processing one entry never aborts the page or the
\* run: the later entries of the page are still processed, the following
\* pages are still fetched, and the collection stage still reports success.
C10_EntryFailureContinues ==
    /\ \A i \in 1..Len(fetched) :
        (fetched[i].answer > 0 /\ (i < Len(fetched) \/ pc # "process"))
            => Processed(i)
    /\ stage.fetch = "false" => fetched[Len(fetched)].answer = PageRaised
    /\ (Collected /\ stage.fetch = "true") =>
        \/ fetched[Len(fetched)].answer = 0
        \/ fetched[Len(fetched)].page = max_pages

C10_Witness ==
    /\ pc = "done"
    /\ stage.fetch = "true"
    /\ Len(fetched) = 2
    /\ fetched[1].answer = 2
    /\ Failed(hist[1])
    /\ hist[2].outcome = "kept"

\* C12: the corpus is ordered by page number and, within a page, by
\* listing position, no entry is in it twice, and a step only ever appends
\* at its end: no record is reordered or removed.
KeyBefore(a, b) == a.page < b.page \/ (a.page = b.page /\ a.pos < b.pos)
CorpusOrdered ==
    \A i, j \in 1..Len(articles) : i < j => KeyBefore(articles[i], articles[j])
CorpusOnlyGrows ==
    /\ Len(articles') >= Len(articles)
    /\ SubSeq(articles', 1, Len(articles)) = articles
C12_OutputOrdering == [](CorpusOrdered) /\ [][CorpusOnlyGrows]_vars

C12_Witness ==
    /\ Len(articles) = 2
    /\ articles[1].page < articles[2].page

\* C15: with comment inclusion enabled, in every state during and after
\* collection total_articles is the number of records of the corpus and
\* total_comments the sum of their comment counts.
RECURSIVE SumComments(_)
SumComments(as) ==
    IF as = <<>> THEN 0 ELSE as[1].comments + SumComments(Tail(as))
C15_StatisticsAccurate ==
    include_comments =>
        /\ stats.total_articles = Len(articles)
        /\ stats.total_comments = SumComments(articles)

C15_Witness ==
    /\ include_comments
    /\ Collected
    /\ Len(articles) = 2
    /\ articles[1].comments = 0
    /\ articles[2].comments = 1
    /\ stats.total_comments = 1

\* C18: between two successive listing fetches there is exactly one delay,
\* after every entry of the earlier page was processed and before the next
\* page is requested; no delay precedes the first fetch.
C18_RateLimiting ==
    /\ fetched = <<>> => delays = 0
    /\ pc = "fetch_page" => (Len(fetched) = page - 1 /\ delays = page - 1)
    /\ pc \in {"process", "sleep"} => delays = Len(fetched) - 1
    /\ delays <= Cardinality({i \in 1..Len(fetched) :
                                fetched[i].answer > 0 /\ Processed(i)})

C18_Witness ==
    /\ pc = "process"
    /\ page = 2
    /\ delays = 1
    /\ Len(hist) > 0

\* C19: collection always terminates and is bounded by the page limit:
\* pages are requested in the order 1, 2, 3, ... without gap or repeat, at
\* most max_pages of them, and when all max_pages listings are non-empty
\* collection ends with success after the last one.
PagesInOrder ==
    /\ \A i \in 1..Len(fetched) : fetched[i].page = i
    /\ Len(fetched) <= max_pages
    /\ (/\ Collected
        /\ Len(fetched) = max_pages
        /\ \A i \in 1..Len(fetched) : fetched[i].answer > 0)
       => (stage.fetch = "true" /\ Processed(max_pages))
C19_CollectionTerminates ==
    [](PagesInOrder) /\ (pc = "fetch_page" ~> Collected)

C19_Witness ==
    /\ Collected
    /\ stage.fetch = "true"
    /\ Len(fetched) = max_pages
    /\ \A i \in 1..Len(fetched) : fetched[i].answer > 0

\* C20: after collection total_images is the sum of the image counts of
\* exactly the records of the corpus, also when the comment fetch of some
\* record failed.
C20_ImagesMatchCorpus ==
    Collected => stats.total_images = SumImages(articles)

\* The last call of export_articles met no refusal of the filesystem.
CleanExport == exhist.streak >= 1

\* C11: every post receives a file path of its own, so after an export the
\* number of post documents is the number of posts and every post's
\* document holds that post, also when two titles derive the same name.
C11_DistinctPaths ==
    CleanExport =>
        /\ \A i, j \in exhist.attempted :
            i # j => exhist.paths[i] # exhist.paths[j]
        /\ Cardinality(DOMAIN disk.files \ {IndexName}) = Len(corpus)
        /\ \A i \in exhist.attempted :
            disk.files[exhist.paths[i]] = <<PostDocument(corpus[i])>>

\* C13: the index written by an export has exactly one line per post,
\* numbered 1..N in corpus order, and line i links to the file name the
\* document of post i is written to.
C13_IndexMatchesDocuments ==
    exhist.index =>
        /\ IndexName \in DOMAIN disk.files
        /\ Len(disk.files[IndexName]) = 1
        /\ LET ix == disk.files[IndexName][1]
           IN /\ ix.total = Len(corpus)
              /\ Len(ix.lines) = Len(corpus)
              /\ \A i \in 1..Len(corpus) :
                    /\ ix.lines[i].no = i
                    /\ ix.lines[i].title = corpus[i].title
              /\ \A i \in exhist.attempted :
                    ix.lines[i].link = exhist.paths[i]

C13_Witness ==
    /\ exhist.index
    /\ Len(corpus) = 2
    /\ exhist.attempted = {1, 2}
    /\ exhist.failed = {}
    /\ corpus[1].title = <<"a", "!">>
    /\ corpus[2].title = <<"a", " ", "7">>

\* C14: a failure while writing one post's document is logged as an error
\* and only that post is skipped: every post is still attempted, the
\* documents of the others are written, and the index has a line for every
\* post attempted.
C14_PostFaultIsolated ==
    exhist.index =>
        /\ exhist.attempted = 1..Len(corpus)
        /\ exhist.errors = Cardinality(exhist.failed)
        /\ \A i \in exhist.attempted \ exhist.failed :
            (\A j \in exhist.attempted : j > i => exhist.paths[j] # exhist.paths[i])
                => disk.files[exhist.paths[i]] = <<PostDocument(corpus[i])>>
        /\ \A i \in exhist.attempted :
            /\ i \in DOMAIN disk.files[IndexName][1].lines
            /\ disk.files[IndexName][1].lines[i].title = corpus[i].title

C14_Witness ==
    /\ exhist.index
    /\ Len(corpus) = 2
    /\ exhist.failed = {1}
    /\ exhist.errors = 1
    /\ exhist.paths[1] # exhist.paths[2]
    /\ disk.files[exhist.paths[2]] = <<PostDocument(corpus[2])>>

\* C16: exporting the same corpus a second time to the same directory, the
\* filesystem refusing nothing either time, leaves the directory as the
\* first export left it: the same files with the same contents.
C16_ExportIdempotent == [][exhist'.streak >= 2 => disk' = disk]_vars

C16_Witness ==
    /\ exports = 2
    /\ exhist.streak = 2
    /\ Len(corpus) = 2
    /\ Cardinality(DOMAIN disk.files) = 3

\* C17: _sanitize_filename returns the title without the characters that
\* are not alphanumeric, space, hyphen or underscore, with spaces replaced
\* by underscores, cut to its first 50 characters, and "article" when that
\* is empty: the result is never empty, at most 50 long, without a space.
AllowedChar(c) == IsAlnum(c) \/ c = " " \/ c = "-" \/ c = "_"
DerivedName(t) ==
    LET kept == SelectSeq(t, AllowedChar)
        under == [i \in DOMAIN kept |-> IF kept[i] = " " THEN "_" ELSE kept[i]]
        cut == [i \in 1..(IF Len(under) < NameLimit THEN Len(under) ELSE NameLimit)
                  |-> under[i]]
    IN IF Len(cut) = 0 THEN Sentinel ELSE cut
C17_FilenameDerivation ==
    sanOut.done =>
        /\ sanOut.name = DerivedName(sanIn)
        /\ Len(sanOut.name) >= 1
        /\ Len(sanOut.name) <= NameLimit
        /\ \A i \in 1..Len(sanOut.name) : sanOut.name[i] # " "

C17_Witness ==
    /\ sanOut.done
    /\ Len(sanIn) > NameLimit
    /\ sanIn[1] = "!"
    /\ sanIn[2] = " "
    /\ Len(sanOut.name) = 26
    /\ sanOut.name[1] = "_"

====
